---- MODULE Spec2Model ----
(***************************************************************************)
(* Model of the agent orchestration core of tutor-chat-spark:              *)
(*   - AgentManager (the Dispatcher): workers map, pending-request map,    *)
(*     type handlers, 30 s timers, worker restart and terminateWorkers;    *)
(*   - BaseAgent (the actor runtime): self.onmessage, createResponse and   *)
(*     the IndexedDB helpers;                                              *)
(*   - the role handlers, as the sequence of Store accesses each performs. *)
(* One step of the model is one task of a JavaScript event loop: code      *)
(* between two awaits of a Store operation runs to completion.             *)
(***************************************************************************)
EXTENDS Naturals, Integers, Sequences, FiniteSets, TLC

\* ---------------------------------------------------------------- bounds
MaxReq == 2          \* number of sendMessage calls in a run
MaxStoreErrs == 1    \* number of Store requests that fail (request.onerror)

\* ------------------------------------------------------------- constants
Roles == {"session", "problem", "evaluation", "hint", "study-plan", "history"}

Collections == {"sessions", "problems", "problem_usage", "evaluations",
                "hints", "study_plans", "session_history"}

NoType == "none"     \* a message without a type field
NoId == 0            \* a message without an id field
CallerIds == {100}   \* ids a caller of sendMessage supplies itself
NumSamples == 5      \* the sample problems of initializeSampleProblems
HandlerTypes == {"error"}   \* message types callers register handlers for
RawRoles == {"session"}   \* roles addressed through sendMessage directly
RawTypes == {NoType, "bogus"}

\* uuidv4(): an id no earlier call returned; n counts the calls
Uuid(n) == n
\* uuidv4() inside a worker, for the record written by request n
NewKey(n) == 10 + n

VARIABLES
  workers,          \* AgentManager.workers: role -> generation of its Worker
  messageHandlers,  \* AgentManager.messageHandlers: the registered types
  activeRequests,   \* AgentManager.activeRequests: id -> request holding resolve/reject
  reqs,             \* the sendMessage calls made so far
  fut,              \* the promise each call returned
  timer,            \* the setTimeout each call armed
  mailbox,          \* per role: messages posted to the worker, not yet dispatched
  hs,               \* per request: where its onmessage handler stands
  nresp,            \* per request: number of self.postMessage calls made for it
  outbox,           \* per role: responses posted by the worker, not yet received
  faultq,           \* roles whose worker has an error event on its way
  dbExists,         \* the IndexedDB database 'AgentDatabase' exists
  dbStores,         \* its object stores
  store,            \* collection -> keys of the entities it holds
  handlerCalls,     \* number of registered-handler invocations
  storeErrs,        \* Store request failures so far
  terminated,       \* terminateWorkers has been called
  rows,             \* collection -> key -> entity: the Store with the values it holds
  last,             \* the latest call made to a component on its own, and its outcome
  running           \* the handlers of a worker taken with its Store: per message
                    \* delivered, where its handler stands and what it holds

vars == <<workers, messageHandlers, activeRequests, reqs, fut, timer, mailbox,
          hs, nresp, outbox, faultq, dbExists, dbStores, store, handlerCalls,
          storeErrs, terminated, rows, last, running>>

dispatcherVars == <<workers, messageHandlers, activeRequests>>
storeVars == <<dbExists, dbStores, store>>
\* the variables of the components taken on their own (Store helpers, role
\* handlers with the values of their records, createHint)
compVars == <<rows, last, running>>

\* ------------------------------------------------------------ map helpers
EmptyMap == [x \in {} |-> 0]
MapSet(f, k, v) == [x \in (DOMAIN f) \cup {k} |-> IF x = k THEN v ELSE f[x]]
MapDelete(f, k) == [x \in (DOMAIN f) \ {k} |-> f[x]]

Requests == 1 .. Len(reqs)

\* no call made yet
NoCall == [op |-> "none"]

\* ------------------------------------------------------------------ Init
\* the Dispatcher after construction, the workers idle, no database yet
MainInit ==
  /\ workers = [r \in Roles |-> 1]
  /\ messageHandlers = {}
  /\ activeRequests = EmptyMap
  /\ reqs = << >>
  /\ fut = << >>
  /\ timer = << >>
  /\ mailbox = [r \in Roles |-> << >>]
  /\ hs = << >>
  /\ nresp = << >>
  /\ outbox = [r \in Roles |-> << >>]
  /\ faultq = {}
  /\ dbExists = FALSE
  /\ dbStores = {}
  /\ store = [c \in Collections |-> {}]
  /\ handlerCalls = 0
  /\ storeErrs = 0
  /\ terminated = FALSE

Init ==
  /\ MainInit
  /\ rows = [c \in Collections |-> EmptyMap]
  /\ last = NoCall
  /\ running = << >>


\* ------------------------------------------------------- the role handlers
\* the cases of each role's handleMessage switch
RoleTypes(role) ==
  CASE role = "session" -> {"init", "update", "end", "persist"}
    [] role = "problem" -> {"request", "suggest", "provide", "filter"}
    [] role = "evaluation" -> {"evaluate", "feedback", "improve"}
    [] role = "hint" -> {"request", "provide"}
    [] role = "study-plan" -> {"analyze", "generate", "update"}
    [] role = "history" -> {"fetch", "save", "analyze"}

StoreOp(kind, coll, key) == [kind |-> kind, coll |-> coll, key |-> key]

\* The Store operation a handler awaits at its pc-th await, for message m of
\* request n.
\*   session init: persist the new session.
\*   problem request: read the catalog; seed the five samples when it is
\*     empty and read again; record the usage.
\*   evaluation evaluate / hint request: look the problem up, persist the
\*     result.
\*   study-plan generate: read the evaluations, persist the plan.
\*   history fetch: read the history.
HandlerOp(m, pc, n) ==
  CASE m.role = "session" /\ m.type = "init" ->
         StoreOp("put", "sessions", NewKey(n))
    [] m.role = "problem" /\ m.type = "request" ->
         IF pc = 1 \/ pc = NumSamples + 2
         THEN StoreOp("getAll", "problems", 0)
         ELSE IF pc = NumSamples + 3
         THEN StoreOp("put", "problem_usage", NewKey(n))
         ELSE StoreOp("put", "problems", pc - 1)
    [] m.role = "evaluation" /\ m.type = "evaluate" ->
         IF pc = 1 THEN StoreOp("get", "problems", m.key)
         ELSE StoreOp("put", "evaluations", NewKey(n))
    [] m.role = "hint" /\ m.type = "request" ->
         IF pc = 1 THEN StoreOp("get", "problems", m.key)
         ELSE StoreOp("put", "hints", NewKey(n))
    [] m.role = "study-plan" /\ m.type = "generate" ->
         IF pc = 1 THEN StoreOp("getAll", "evaluations", 0)
         ELSE StoreOp("put", "study_plans", NewKey(n))
    [] m.role = "history" /\ m.type = "fetch" ->
         StoreOp("getAll", "session_history", 0)

Await(pc) == [act |-> "await", pc |-> pc, type |-> ""]
Return(type) == [act |-> "return", pc |-> 0, type |-> type]
Throw == [act |-> "throw", pc |-> 0, type |-> "error"]

\* What a handler does from the dispatch of its message to its first await:
\* the runtime's check of the type field, the role's switch, the handler's
\* check of the required fields.
HandlerBegin(m) ==
  IF m.type = NoType THEN Throw
  ELSE IF m.type \notin RoleTypes(m.role) THEN Throw
  ELSE IF ~m.valid THEN Throw
  ELSE IF m.role = "hint" /\ m.type = "provide" THEN Return("provide")
  ELSE Await(1)

\* What a handler does when the Store operation of its pc-th await settles
\* with res: "ok" (put), "hit" / "miss" (get), "some" / "empty" (getAll) or
\* "rejected" (the promise of the helper was rejected).
HandlerResume(m, pc, res) ==
  CASE m.role = "session" /\ m.type = "init" ->
         IF res = "ok" THEN Return("init") ELSE Throw
    [] m.role = "problem" /\ m.type = "request" ->
         IF pc = 1
         THEN (IF res = "some" THEN Await(NumSamples + 3) ELSE Await(2))
         ELSE IF pc = NumSamples + 2 THEN Await(NumSamples + 3)
         ELSE IF pc = NumSamples + 3
         THEN (IF res = "ok" THEN Return("provide") ELSE Throw)
         ELSE (IF res = "ok" THEN Await(pc + 1) ELSE Throw)
    [] m.role = "evaluation" /\ m.type = "evaluate" ->
         IF pc = 1 THEN (IF res = "hit" THEN Await(2) ELSE Throw)
         ELSE (IF res = "ok" THEN Return("evaluate") ELSE Throw)
    [] m.role = "hint" /\ m.type = "request" ->
         IF pc = 1 THEN (IF res = "hit" THEN Await(2) ELSE Throw)
         ELSE (IF res = "ok" THEN Return("provide") ELSE Throw)
    [] m.role = "study-plan" /\ m.type = "generate" ->
         IF pc = 1 THEN Await(2)
         ELSE (IF res = "ok" THEN Return("generate") ELSE Throw)
    [] m.role = "history" /\ m.type = "fetch" ->
         Return("fetch")

\* ------------------------------------------------------ the actor runtime
\* A createResponse that gives the response an id of its own.
createResponse_ownId(m, type) == [id |-> Uuid(2000), type |-> type]

\* BaseAgent.createResponse
createResponse(m, type) == [id |-> m.id, type |-> type]

\* the message posted by the catch branch of self.onmessage; n is the
\* request, whose number stands for the uuid generated when the id is missing
errorResponse(m, n) ==
  [id |-> IF m.id # NoId THEN m.id ELSE Uuid(1000 + n), type |-> "error"]

\* self.postMessage(resp) for request n, which ends its handler
PostResponse(n, resp) ==
  /\ outbox' = [outbox EXCEPT ![reqs[n].role] =
                  Append(@, [id |-> resp.id, type |-> resp.type, req |-> n])]
  /\ nresp' = [nresp EXCEPT ![n] = @ + 1]
  /\ hs' = [hs EXCEPT ![n] = [st |-> "done", pc |-> 0]]

\* the handler of request n goes on as `a` says
Continue(n, a) ==
  CASE a.act = "await" ->
         /\ hs' = [hs EXCEPT ![n] = [st |-> "run", pc |-> a.pc]]
         /\ UNCHANGED <<outbox, nresp>>
    [] a.act = "return" -> PostResponse(n, createResponse(reqs[n], a.type))
    [] a.act = "throw" -> PostResponse(n, errorResponse(reqs[n], n))

\* self.onmessage: the worker's event loop dispatches the next message of its
\* mailbox. Nothing makes it wait for the handlers that are suspended at an
\* await.
OnMessage(role) ==
  /\ UNCHANGED compVars
  /\ mailbox[role] # << >>
  /\ LET n == Head(mailbox[role]) IN
       /\ mailbox' = [mailbox EXCEPT ![role] = Tail(@)]
       /\ Continue(n, HandlerBegin(reqs[n]))
  /\ UNCHANGED <<dispatcherVars, reqs, fut, timer, faultq, storeVars,
                 handlerCalls, storeErrs, terminated>>

\* ------------------------------------------------------------- the Store
\* indexedDB.open('AgentDatabase', 1): onupgradeneeded runs only when the
\* database does not exist yet, and creates the one store the helper names
\* (deleteFromIndexedDB sets no onupgradeneeded).
OpenedStores(op) ==
  IF dbExists THEN dbStores
  ELSE IF op.kind = "delete" THEN {} ELSE {op.coll}

StoreResult(op) ==
  CASE op.kind = "put" -> "ok"
    [] op.kind = "delete" -> "ok"
    [] op.kind = "get" -> IF op.key \in store[op.coll] THEN "hit" ELSE "miss"
    [] op.kind = "getAll" -> IF store[op.coll] = {} THEN "empty" ELSE "some"

StoreAfter(op) ==
  CASE op.kind = "put" -> [store EXCEPT ![op.coll] = @ \cup {op.key}]
    [] op.kind = "delete" -> [store EXCEPT ![op.coll] = @ \ {op.key}]
    [] OTHER -> store

\* The Store operation that request n awaits runs: open, transaction,
\* request, callback. db.transaction([storeName]) throws inside the onsuccess
\* callback when the database has no such store: the promise of the helper is
\* then never settled, and the uncaught exception reaches worker.onerror.
StoreStep(n) ==
  /\ UNCHANGED compVars
  /\ n \in Requests
  /\ hs[n].st = "run"
  /\ LET op == HandlerOp(reqs[n], hs[n].pc, n) IN
       /\ dbExists' = TRUE
       /\ dbStores' = OpenedStores(op)
       /\ IF op.coll \in OpenedStores(op)
          THEN /\ store' = StoreAfter(op)
               /\ Continue(n, HandlerResume(reqs[n], hs[n].pc, StoreResult(op)))
               /\ UNCHANGED faultq
          ELSE /\ hs' = [hs EXCEPT ![n] = [st |-> "hung", pc |-> hs[n].pc]]
               /\ faultq' = faultq \cup {reqs[n].role}
               /\ UNCHANGED <<store, outbox, nresp>>
  /\ UNCHANGED <<dispatcherVars, reqs, fut, timer, mailbox, handlerCalls,
                 storeErrs, terminated>>

\* The Store operation that request n awaits fails (request.onerror or
\* storeRequest.onerror): the helper rejects its promise.
StoreFail(n) ==
  /\ UNCHANGED compVars
  /\ n \in Requests
  /\ hs[n].st = "run"
  /\ storeErrs < MaxStoreErrs
  /\ storeErrs' = storeErrs + 1
  /\ Continue(n, HandlerResume(reqs[n], hs[n].pc, "rejected"))
  /\ UNCHANGED <<dispatcherVars, reqs, fut, timer, mailbox, faultq, storeVars,
                 handlerCalls, terminated>>


\* --------------------------------------------------------- the Dispatcher
Pending == [state |-> "pending", val |-> "", rid |-> NoId]

\* resolve(message) / reject(error) of the promise of request n; a promise
\* that is settled stays as it is
Settle(f, n, state, val, rid) ==
  IF f[n].state = "pending"
  THEN [f EXCEPT ![n] = [state |-> state, val |-> val, rid |-> rid]]
  ELSE f

\* worker.terminate() for the workers of `roles`: their mailboxes, the
\* handlers they run, the responses and the error events they have posted are
\* discarded; `st` is "killed" (by a restart) or "closed" (by terminateWorkers)
KilledHandlers(roles, st) ==
  [n \in DOMAIN hs |->
     IF reqs[n].role \in roles /\ hs[n].st \in {"queued", "run", "hung"}
     THEN [st |-> st, pc |-> 0] ELSE hs[n]]

Terminate(roles, st) ==
  /\ mailbox' = [r \in Roles |-> IF r \in roles THEN << >> ELSE mailbox[r]]
  /\ outbox' = [r \in Roles |-> IF r \in roles THEN << >> ELSE outbox[r]]
  /\ hs' = KilledHandlers(roles, st)
  /\ faultq' = faultq \ roles

\* AgentManager.sendMessage(role, message); message.id is `id` (NoId when the
\* caller gave none)
sendMessage(role, type, valid, key, id, pub) ==
  /\ UNCHANGED compVars
  /\ Len(reqs) < MaxReq
  /\ LET n == Len(reqs) + 1
         messageId == IF id # NoId THEN id ELSE Uuid(n)
         gen == IF role \in DOMAIN workers THEN workers[role] ELSE 0
         m == [role |-> role, type |-> type, valid |-> valid, key |-> key,
               id |-> messageId, pub |-> pub, gen |-> gen]
     IN
       /\ reqs' = Append(reqs, m)
       /\ nresp' = Append(nresp, 0)
       /\ IF role \notin DOMAIN workers
          THEN /\ fut' = Append(fut, [state |-> "rejected", val |-> "noworker",
                                      rid |-> NoId])
               /\ timer' = Append(timer, "none")
               /\ hs' = Append(hs, [st |-> "none", pc |-> 0])
               /\ UNCHANGED <<activeRequests, mailbox>>
          ELSE /\ fut' = Append(fut, Pending)
               /\ activeRequests' = MapSet(activeRequests, messageId, n)
               /\ timer' = Append(timer, "armed")
               /\ hs' = Append(hs, [st |-> "queued", pc |-> 0])
               /\ mailbox' = [mailbox EXCEPT ![role] = Append(@, n)]
  /\ UNCHANGED <<workers, messageHandlers, outbox, faultq, storeVars,
                 handlerCalls, storeErrs, terminated>>

\* the six public operations: each builds its message with id uuidv4();
\* `valid` says whether the arguments give the handler its required fields,
\* `key` is the problemId
PublicOps ==
  {[role |-> "session", type |-> "init", valid |-> TRUE, key |-> 0],
   [role |-> "session", type |-> "init", valid |-> FALSE, key |-> 0],
   [role |-> "problem", type |-> "request", valid |-> TRUE, key |-> 0],
   [role |-> "evaluation", type |-> "evaluate", valid |-> TRUE, key |-> 1],
   [role |-> "hint", type |-> "request", valid |-> TRUE, key |-> 1],
   [role |-> "study-plan", type |-> "generate", valid |-> TRUE, key |-> 0],
   [role |-> "history", type |-> "fetch", valid |-> TRUE, key |-> 0]}

PublicOperation ==
  \E op \in PublicOps :
    sendMessage(op.role, op.type, op.valid, op.key, Uuid(Len(reqs) + 1), TRUE)

\* a caller that uses sendMessage itself, with or without an id and a type
RawSend ==
  \E role \in RawRoles, type \in RawTypes, id \in CallerIds \cup {NoId} :
    /\ (type # NoType => id = NoId)
    /\ sendMessage(role, type, TRUE, 0, id, FALSE)

\* A handleWorkerMessage that looks for a registered handler only when the
\* response matched a pending completion.
HandleMessage_matchedOnly(message) ==
  IF message.id \in DOMAIN activeRequests
  THEN /\ fut' = Settle(fut, activeRequests[message.id], "resolved",
                        message.type, message.id)
       /\ activeRequests' = MapDelete(activeRequests, message.id)
       /\ handlerCalls' = IF message.type \in messageHandlers
                          THEN handlerCalls + 1 ELSE handlerCalls
  ELSE UNCHANGED <<fut, activeRequests, handlerCalls>>

\* the body of AgentManager.handleWorkerMessage(message)
HandleMessage(message) ==
  /\ IF message.id \in DOMAIN activeRequests
     THEN /\ fut' = Settle(fut, activeRequests[message.id], "resolved",
                           message.type, message.id)
          /\ activeRequests' = MapDelete(activeRequests, message.id)
     ELSE UNCHANGED <<fut, activeRequests>>
  /\ handlerCalls' = IF message.type \in messageHandlers
                     THEN handlerCalls + 1 ELSE handlerCalls

\* worker.onmessage: the next response of the worker of `role` reaches the
\* Dispatcher
handleWorkerMessage(role) ==
  /\ UNCHANGED compVars
  /\ outbox[role] # << >>
  /\ outbox' = [outbox EXCEPT ![role] = Tail(@)]
  /\ HandleMessage(Head(outbox[role]))
  /\ UNCHANGED <<workers, messageHandlers, reqs, timer, mailbox, hs, nresp,
                 faultq, storeVars, storeErrs, terminated>>

\* A timeout callback that rejects the promise and leaves its entry in the map.
TimeoutCallback_keepsEntry(n) ==
  IF reqs[n].id \in DOMAIN activeRequests
  THEN /\ fut' = Settle(fut, activeRequests[reqs[n].id], "rejected",
                        "timeout", NoId)
       /\ UNCHANGED activeRequests
  ELSE UNCHANGED <<fut, activeRequests>>

\* the callback of the setTimeout armed by request n
TimeoutCallback(n) ==
  IF reqs[n].id \in DOMAIN activeRequests
  THEN /\ fut' = Settle(fut, activeRequests[reqs[n].id], "rejected",
                        "timeout", NoId)
       /\ activeRequests' = MapDelete(activeRequests, reqs[n].id)
  ELSE UNCHANGED <<fut, activeRequests>>

\* 30 seconds after request n was sent; timers of equal delay fire in the
\* order they were armed
Timeout(n) ==
  /\ UNCHANGED compVars
  /\ n \in Requests
  /\ timer[n] = "armed"
  /\ \A k \in 1 .. (n - 1) : timer[k] # "armed"
  /\ timer' = [timer EXCEPT ![n] = "fired"]
  /\ TimeoutCallback(n)
  /\ UNCHANGED <<workers, messageHandlers, reqs, mailbox, hs, nresp, outbox,
                 faultq, storeVars, handlerCalls, storeErrs, terminated>>

\* A restartWorker whose switch has no case for the role: the old worker is
\* terminated and no new one is created.
restartWorker_noCreate(role) ==
  IF role \in DOMAIN workers
  THEN /\ Terminate({role}, "killed")
       /\ workers' = MapDelete(workers, role)
  ELSE UNCHANGED <<workers, mailbox, outbox, hs, faultq>>

\* A restartWorker that replaces the worker of every role.
restartWorker_everyRole(role) ==
  IF role \in DOMAIN workers
  THEN /\ Terminate(DOMAIN workers, "killed")
       /\ workers' = [r \in DOMAIN workers |-> workers[r] + 1]
  ELSE UNCHANGED <<workers, mailbox, outbox, hs, faultq>>

\* AgentManager.restartWorker(role)
restartWorker(role) ==
  IF role \in DOMAIN workers
  THEN /\ Terminate({role}, "killed")
       /\ workers' = [workers EXCEPT ![role] = @ + 1]
  ELSE UNCHANGED <<workers, mailbox, outbox, hs, faultq>>

\* worker.onerror for the uncaught exception of a Store callback
handleWorkerError(role) ==
  /\ UNCHANGED compVars
  /\ role \in faultq
  /\ restartWorker(role)
  /\ UNCHANGED <<messageHandlers, activeRequests, reqs, fut, timer, nresp,
                 storeVars, handlerCalls, storeErrs, terminated>>

\* AgentManager.registerHandler(type, handler)
registerHandler(type) ==
  /\ UNCHANGED compVars
  /\ messageHandlers' = messageHandlers \cup {type}
  /\ UNCHANGED <<workers, activeRequests, reqs, fut, timer, mailbox, hs, nresp,
                 outbox, faultq, storeVars, handlerCalls, storeErrs,
                 terminated>>

\* AgentManager.terminateWorkers()
terminateWorkers ==
  /\ UNCHANGED compVars
  /\ Terminate(DOMAIN workers, "closed")
  /\ workers' = EmptyMap
  /\ messageHandlers' = {}
  /\ activeRequests' = EmptyMap
  /\ terminated' = TRUE
  /\ UNCHANGED <<reqs, fut, timer, nresp, storeVars, handlerCalls, storeErrs>>

\* ---------------------------------------------------------- specification
Next ==
  \/ PublicOperation
  \/ RawSend
  \/ \E role \in Roles : OnMessage(role)
  \/ \E n \in 1 .. MaxReq : StoreStep(n)
  \/ \E n \in 1 .. MaxReq : StoreFail(n)
  \/ \E role \in Roles : handleWorkerMessage(role)
  \/ \E n \in 1 .. MaxReq : Timeout(n)
  \/ \E role \in Roles : handleWorkerError(role)
  \/ \E type \in HandlerTypes : registerHandler(type)
  \/ terminateWorkers

Spec == Init /\ [][Next]_vars


\* The scheduling of the code: each event loop runs the tasks queued on it
\* (message events, Store callbacks, error events) and every armed timer
\* fires. Store failures and the calls of the Dispatcher's API are not forced.
Fairness ==
  /\ WF_vars(\E role \in Roles : OnMessage(role))
  /\ WF_vars(\E n \in 1 .. MaxReq : StoreStep(n))
  /\ WF_vars(\E role \in Roles : handleWorkerMessage(role))
  /\ WF_vars(\E n \in 1 .. MaxReq : Timeout(n))
  /\ WF_vars(\E role \in Roles : handleWorkerError(role))

FairSpec == Spec /\ Fairness


\* ------------------------------------------ the Store helpers, with values
\* The variables of the Dispatcher and of the workers, which a component
\* taken on its own leaves alone.
mainVars == <<workers, messageHandlers, activeRequests, reqs, fut, timer,
              mailbox, hs, nresp, outbox, faultq, store, handlerCalls,
              storeErrs, terminated>>

\* the result of store.get for a key the store does not hold
Undefined == [undefined |-> TRUE]

\* the database as the helpers see it
CurDB == [exists |-> dbExists, stores |-> dbStores, rows |-> rows]

\* the keys uuidv4() has generated for stored entities
FreshKeys(db) == {k \in UNION {DOMAIN db.rows[c] : c \in Collections} : k > 10}
\* uuidv4() for an entity that has no id
FreshKey(db) == NewKey(Cardinality(FreshKeys(db)) + 1)

\* indexedDB.open('AgentDatabase', 1) and its onupgradeneeded, which runs
\* only when the database is created; `upgrade` says whether the helper sets
\* an onupgradeneeded callback
OpenDatabase(db, storeName, upgrade) ==
  [exists |-> TRUE,
   stores |-> IF db.exists THEN db.stores
              ELSE IF upgrade THEN {storeName} ELSE {},
   rows |-> db.rows]

\* how the promise of a helper ends: resolve(val), reject(error), or neither
\* (db.transaction threw inside request.onsuccess)
Resolved(val, db) == [st |-> "resolved", val |-> val, db |-> db]
Rejected(db) == [st |-> "rejected", val |-> Undefined, db |-> db]
NeverSettles(db) == [st |-> "pending", val |-> Undefined, db |-> db]

\* store.getAll(): the entities in the order of their keys
RECURSIVE InKeyOrder(_)
InKeyOrder(f) ==
  IF DOMAIN f = {} THEN << >>
  ELSE LET k == CHOOSE x \in DOMAIN f : \A y \in DOMAIN f : x <= y
       IN <<f[k]>> \o InKeyOrder(MapDelete(f, k))

\* BaseAgent.persistToIndexedDB(storeName, data); `fail` is request.onerror
persistToIndexedDB(db, storeName, data, fail) ==
  IF fail THEN Rejected(db)
  ELSE LET o == OpenDatabase(db, storeName, TRUE) IN
    IF storeName \notin o.stores THEN NeverSettles(o)
    ELSE LET dataWithId ==
               [data EXCEPT !.id = IF data.id # NoId THEN data.id
                                   ELSE FreshKey(db)]
         IN Resolved(Undefined,
                     [o EXCEPT !.rows[storeName] =
                        MapSet(@, dataWithId.id, dataWithId)])

\* BaseAgent.retrieveFromIndexedDB(storeName, id)
retrieveFromIndexedDB(db, storeName, id, fail) ==
  IF fail THEN Rejected(db)
  ELSE LET o == OpenDatabase(db, storeName, TRUE) IN
    IF storeName \notin o.stores THEN NeverSettles(o)
    ELSE Resolved(IF id \in DOMAIN o.rows[storeName]
                  THEN o.rows[storeName][id] ELSE Undefined, o)

\* BaseAgent.retrieveAllFromIndexedDB(storeName)
retrieveAllFromIndexedDB(db, storeName, fail) ==
  IF fail THEN Rejected(db)
  ELSE LET o == OpenDatabase(db, storeName, TRUE) IN
    IF storeName \notin o.stores THEN NeverSettles(o)
    ELSE Resolved(InKeyOrder(o.rows[storeName]), o)

\* BaseAgent.deleteFromIndexedDB(storeName, id): no onupgradeneeded
deleteFromIndexedDB(db, storeName, id, fail) ==
  IF fail THEN Rejected(db)
  ELSE LET o == OpenDatabase(db, storeName, FALSE) IN
    IF storeName \notin o.stores THEN NeverSettles(o)
    ELSE Resolved(Undefined,
                  [o EXCEPT !.rows[storeName] =
                     IF id \in DOMAIN @ THEN MapDelete(@, id) ELSE @])

\* the database after a call
SetDB(db) ==
  /\ dbExists' = db.exists
  /\ dbStores' = db.stores
  /\ rows' = db.rows

\* ----------------------------------------------- the Store on its own
MaxFresh == 1              \* entities stored without an id of their own
ItemIds == {1, 2}          \* ids of the entities callers store
StoreItems == [id : ItemIds \cup {NoId}, v : {1, 2}]

Put(c, item, fail) ==
  /\ item.id = NoId => Cardinality(FreshKeys(CurDB)) < MaxFresh
  /\ LET r == persistToIndexedDB(CurDB, c, item, fail) IN
       /\ SetDB(r.db)
       /\ last' = [op |-> "put", coll |-> c, id |-> item.id, item |-> item,
                   fail |-> fail, st |-> r.st, val |-> r.val]
  /\ UNCHANGED <<mainVars, running>>

Get(c, id, fail) ==
  /\ LET r == retrieveFromIndexedDB(CurDB, c, id, fail) IN
       /\ SetDB(r.db)
       /\ last' = [op |-> "get", coll |-> c, id |-> id, item |-> Undefined,
                   fail |-> fail, st |-> r.st, val |-> r.val]
  /\ UNCHANGED <<mainVars, running>>

GetAll(c, fail) ==
  /\ LET r == retrieveAllFromIndexedDB(CurDB, c, fail) IN
       /\ SetDB(r.db)
       /\ last' = [op |-> "getAll", coll |-> c, id |-> NoId,
                   item |-> Undefined, fail |-> fail, st |-> r.st,
                   val |-> r.val]
  /\ UNCHANGED <<mainVars, running>>

Delete(c, id, fail) ==
  /\ LET r == deleteFromIndexedDB(CurDB, c, id, fail) IN
       /\ SetDB(r.db)
       /\ last' = [op |-> "delete", coll |-> c, id |-> id,
                   item |-> Undefined, fail |-> fail, st |-> r.st,
                   val |-> r.val]
  /\ UNCHANGED <<mainVars, running>>

StoreNext ==
  \/ \E c \in Collections, item \in StoreItems, fail \in BOOLEAN :
       Put(c, item, fail)
  \/ \E c \in Collections, id \in ItemIds, fail \in BOOLEAN : Get(c, id, fail)
  \/ \E c \in Collections, fail \in BOOLEAN : GetAll(c, fail)
  \/ \E c \in Collections, id \in ItemIds, fail \in BOOLEAN :
       Delete(c, id, fail)

StoreSpec == Init /\ [][StoreNext]_vars


\* ------------------------------------------------ createHint on its own
MaxHints == 6              \* requestHint calls of one session (hintsProvided)
Levels == 1 .. 5           \* difficultyLevel as the catalog documents it

\* Math.min(a, b)
Min(a, b) == IF a <= b THEN a ELSE b

\* what analyzeCode found in the code: each field says whether the list (or
\* flag) of that name is non-empty
Analyses == [missingConcepts : BOOLEAN, inefficientApproach : BOOLEAN,
             missingEdgeCases : BOOLEAN, logicalErrors : BOOLEAN]

\* the branch of createHint's if / else-if chain
HintBranch(codeAnalysis) ==
  IF codeAnalysis.missingConcepts THEN "concept"
  ELSE IF codeAnalysis.inefficientApproach THEN "optimization"
  ELSE IF codeAnalysis.missingEdgeCases THEN "edge case handling"
  ELSE IF codeAnalysis.logicalErrors THEN "logic correction"
  ELSE "general approach"

\* A hint level that is not capped.
HintLevel_noCap(difficultyLevel, hintsProvided) ==
  difficultyLevel + hintsProvided

\* const hintLevel = Math.min(difficultyLevel + hintsProvided, 5)
HintLevel(difficultyLevel, hintsProvided) ==
  Min(difficultyLevel + hintsProvided, 5)

\* the text of a branch at a level: one string literal per case of the
\* switch, '' when no case matches
HintText(branch, hintLevel) ==
  IF hintLevel \in 1 .. 5 THEN <<branch, hintLevel>> ELSE << >>

\* the code snippet: the first two branches give one from level 3 on, the
\* others from level 4 on; it depends on the branch, the level, the language
\* and the problem only
HintSnippet(branch, hintLevel) ==
  IF hintLevel \in 1 .. 5
     /\ hintLevel >= (IF branch \in {"concept", "optimization"} THEN 3 ELSE 4)
  THEN <<branch, hintLevel>> ELSE << >>

\* HintAgent.createHint for given code, language and problem, whose analysis
\* is codeAnalysis; n counts the hints created
createHint(codeAnalysis, hintsProvided, difficultyLevel, n) ==
  LET hintLevel == HintLevel(difficultyLevel, hintsProvided)
      branch == HintBranch(codeAnalysis)
  IN [id |-> NewKey(n), text |-> HintText(branch, hintLevel),
      level |-> hintLevel, relatedConcept |-> branch,
      codeSnippet |-> HintSnippet(branch, hintLevel)]

\* a session asks for hints on the same code and problem
HintInit ==
  /\ MainInit
  /\ rows = [c \in Collections |-> EmptyMap]
  /\ running = << >>
  /\ \E a \in Analyses, d \in Levels :
       last = [op |-> "hint", codeAnalysis |-> a, difficultyLevel |-> d,
               given |-> << >>]

\* the next requestHint of the session: hintsProvided is the number of hints
\* the session has been given
NextHint ==
  /\ Len(last.given) <= MaxHints
  /\ last' = [last EXCEPT !.given =
                Append(@, createHint(last.codeAnalysis, Len(@),
                                     last.difficultyLevel, Len(@) + 1))]
  /\ UNCHANGED <<mainVars, dbExists, dbStores, rows, running>>

HintNext == NextHint

HintSpec == HintInit /\ [][HintNext]_vars


\* ------------------------------------- the role handlers, with their values
\* A handler is taken from the dispatch of its message to its response, with
\* the entities it reads and writes. Its outcome: the type and payload of the
\* response ("none": the handler never answers), the database it leaves and
\* the number of Store helpers it called.
Out(type, payload, db, calls) ==
  [type |-> type, payload |-> payload, db |-> db, calls |-> calls]
\* the catch branch of self.onmessage: an error-typed response
Err(error, db, calls) == Out("error", [error |-> error], db, calls)
\* a handler suspended for ever at the await of a helper that never settles
Stuck(db, calls) == Out("none", Undefined, db, calls)

\* `await helper(...)` as the calls-th helper call of a handler, then K: a
\* rejection is thrown on to self.onmessage, a promise that never settles
\* ends the handler
Then(r, calls, K(_)) ==
  CASE r.st = "pending" -> Stuck(r.db, calls)
    [] r.st = "rejected" -> Err("store", r.db, calls)
    [] OTHER -> K(r)

\* try { return await helper(...) } catch { return dflt }
Caught(r, dflt) == IF r.st = "rejected" THEN Resolved(dflt, r.db) ELSE r

\* the fields of a message the handlers look at; `missing` says that a field
\* the handler requires is absent
Users == {"u1", "u2"}
NoDifficulty == "any"
NoCategory == "any"
UnknownRef == 99
Msg(role, type) ==
  [role |-> role, type |-> type, missing |-> FALSE, userId |-> "u1",
   ref |-> UnknownRef, difficulty |-> NoDifficulty, category |-> NoCategory,
   provided |-> FALSE, sessionId |-> NoId, timeRange |-> << >>,
   item |-> Undefined, pick |-> 1, hintsProvided |-> 0, difficultyLevel |-> 1,
   experienceLevel |-> "beginner", content |-> "text",
   codeAnalysis |-> [missingConcepts |-> FALSE, inefficientApproach |-> FALSE,
                     missingEdgeCases |-> TRUE, logicalErrors |-> FALSE]]

\* Date.now(): a clock that advances with every entity stored
Now(db) == Cardinality(FreshKeys(db)) + 1

\* ---- SessionAgent
NoTime == 0
ExperienceLevels == {"beginner", "intermediate", "advanced", "expert"}

\* generateWelcomeMessage: the part of the text that depends on the level
generateWelcomeMessage(experienceLevel) ==
  CASE experienceLevel = "beginner" -> "foundational coding skills"
    [] experienceLevel = "intermediate" -> "intermediate coding skills"
    [] experienceLevel = "advanced" -> "advanced programming techniques"
    [] experienceLevel = "expert" -> "expert-level software engineering"
    [] OTHER -> ""

\* A session that is always stored under the same id.
SessionData_sameId(sessionId, m, now) ==
  [id |-> NewKey(1), userId |-> m.userId,
   experienceLevel |-> m.experienceLevel, startTime |-> now,
   isActive |-> TRUE, endTime |-> NoTime,
   messages |-> <<generateWelcomeMessage(m.experienceLevel)>>]

\* the record initializeSession stores under sessionId
SessionData(sessionId, m, now) ==
  [id |-> sessionId, userId |-> m.userId,
   experienceLevel |-> m.experienceLevel, startTime |-> now,
   isActive |-> TRUE, endTime |-> NoTime,
   messages |-> <<generateWelcomeMessage(m.experienceLevel)>>]

initializeSession(db, m, fail) ==
  IF m.missing THEN Err("validation", db, 0)
  ELSE LET sessionId == FreshKey(db)
           sessionData == SessionData(sessionId, m, Now(db))
       IN Then(persistToIndexedDB(db, "sessions", sessionData, fail = 1), 1,
               LAMBDA r : Out("init",
                              [sessionId |-> sessionId,
                               message |-> sessionData.messages[1]], r.db, 1))

\* An endSession that also empties the message history.
ChangedSession_endClearsMessages(m, session, now) ==
  CASE m.type = "update" ->
         IF m.provided
         THEN [session EXCEPT !.experienceLevel = m.experienceLevel]
         ELSE session
    [] m.type = "end" ->
         [session EXCEPT !.isActive = FALSE, !.endTime = now,
                         !.messages = << >>]
    [] m.type = "persist" ->
         [session EXCEPT !.messages = Append(@, m.content)]

\* updatedSession / endedSession: the session read, spread, with the fields
\* updateSession, endSession or persistSession replaces
ChangedSession(m, session, now) ==
  CASE m.type = "update" ->
         IF m.provided
         THEN [session EXCEPT !.experienceLevel = m.experienceLevel]
         ELSE session
    [] m.type = "end" ->
         [session EXCEPT !.isActive = FALSE, !.endTime = now]
    [] m.type = "persist" ->
         [session EXCEPT !.messages = Append(@, m.content)]

\* updateSession, endSession and persistSession: read the session, write it
\* back changed
changeSession(db, m, fail) ==
  IF m.missing THEN Err("validation", db, 0)
  ELSE Then(retrieveFromIndexedDB(db, "sessions", m.ref, fail = 1), 1,
         LAMBDA r1 :
           IF r1.val = Undefined THEN Err("notfound", r1.db, 1)
           ELSE Then(persistToIndexedDB(r1.db, "sessions",
                                        ChangedSession(m, r1.val, Now(r1.db)),
                                        fail = 2), 2,
                     LAMBDA r2 : Out(m.type, [sessionId |-> m.ref], r2.db, 2)))

\* ---- ProblemAgent
\* the sample problems of initializeSampleProblems: `sample` stands for the
\* title and text of the problem
SampleProblems ==
  <<[sample |-> 1, difficulty |-> "easy", category |-> {"arrays", "algorithms"}],
    [sample |-> 2, difficulty |-> "easy", category |-> {"arrays", "algorithms"}],
    [sample |-> 3, difficulty |-> "medium", category |-> {"stacks", "algorithms"}],
    [sample |-> 4, difficulty |-> "hard", category |-> {"data-structures", "design"}],
    [sample |-> 5, difficulty |-> "medium", category |-> {"trees", "algorithms"}]>>

\* the sampleProblems array of the seed-th call of initializeSampleProblems:
\* every call gives each problem a new id (uuidv4())
sampleProblems(seed) ==
  [k \in 1 .. Len(SampleProblems) |->
     [id |-> NewKey(100 * seed + k), sample |-> SampleProblems[k].sample,
      difficulty |-> SampleProblems[k].difficulty,
      category |-> SampleProblems[k].category]]

\* the calls of initializeSampleProblems that have stored their problems
Seedings(db) == Cardinality(DOMAIN db.rows["problems"]) \div Len(SampleProblems)

\* getProblemsFromDatabase
getProblemsFromDatabase(db, fail) ==
  Caught(retrieveAllFromIndexedDB(db, "problems", fail), << >>)

\* the loop of initializeSampleProblems from its i-th problem on
RECURSIVE initializeSampleProblems(_, _, _)
initializeSampleProblems(db, i, seed) ==
  IF i > Len(SampleProblems) THEN Resolved(Undefined, db)
  ELSE LET r == persistToIndexedDB(db, "problems", sampleProblems(seed)[i],
                                   FALSE)
       IN IF r.st = "resolved" THEN initializeSampleProblems(r.db, i + 1, seed)
          ELSE r

\* the difficulty and category filters of request, suggest and filter
\* (Array.prototype.filter is SelectSeq)
filteredProblems(allProblems, m) ==
  LET byDifficulty ==
        IF m.difficulty # NoDifficulty
        THEN SelectSeq(allProblems, LAMBDA p : p.difficulty = m.difficulty)
        ELSE allProblems
  IN IF m.category # NoCategory
     THEN SelectSeq(byDifficulty, LAMBDA p : m.category \in p.category)
     ELSE byDifficulty

generateGenericProblem(db, difficulty, categories) ==
  [id |-> FreshKey(db), sample |-> 0, difficulty |-> difficulty,
   category |-> categories]

\* trackProblemUsage, then the response
trackProblemUsage(db, m, problem, calls) ==
  LET usageData == [id |-> FreshKey(db), problemId |-> problem.id,
                    userId |-> m.userId]
  IN Then(persistToIndexedDB(db, "problem_usage", usageData, FALSE), calls,
          LAMBDA r : Out("provide", [problem |-> problem], r.db, calls))

\* selectedProblem: a random one of the filtered problems, or a generic
\* problem when the filter leaves none; m.pick is the value of Math.random()
selectedProblem(db, m, allProblems) ==
  LET filtered == filteredProblems(allProblems, m)
  IN IF Len(filtered) > 0
     THEN filtered[((m.pick - 1) % Len(filtered)) + 1]
     ELSE generateGenericProblem(
            db,
            IF m.difficulty # NoDifficulty THEN m.difficulty ELSE "medium",
            IF m.category # NoCategory THEN {m.category}
            ELSE {"algorithms"})

\* the rest of requestProblem once the catalog is loaded
selectProblem(db, m, allProblems, calls) ==
  trackProblemUsage(db, m, selectedProblem(db, m, allProblems), calls)

requestProblem(db, m, fail) ==
  IF m.missing THEN Err("validation", db, 0)
  ELSE LET r1 == getProblemsFromDatabase(db, fail = 1) IN
    IF r1.st = "pending" THEN Stuck(r1.db, 1)
    ELSE IF Len(r1.val) > 0 THEN selectProblem(r1.db, m, r1.val, 2)
    ELSE Then(initializeSampleProblems(r1.db, 1, Seedings(r1.db) + 1),
              1 + Len(SampleProblems),
           LAMBDA r2 :
             LET r3 == getProblemsFromDatabase(r2.db, FALSE) IN
               IF r3.st = "pending"
               THEN Stuck(r3.db, 2 + Len(SampleProblems))
               ELSE selectProblem(r3.db, m, r3.val, 3 + Len(SampleProblems)))

\* suggestProblems and filterProblems
listProblems(db, m, fail) ==
  IF m.missing THEN Err("validation", db, 0)
  ELSE LET r1 == getProblemsFromDatabase(db, fail = 1) IN
    IF r1.st = "pending" THEN Stuck(r1.db, 1)
    ELSE LET filtered == filteredProblems(r1.val, m) IN
      Out(m.type,
          [problems |-> IF m.type = "suggest"
                        THEN SubSeq(filtered, 1, Min(3, Len(filtered)))
                        ELSE filtered],
          r1.db, 1)

provideProblem(db, m, fail) ==
  IF m.missing THEN Err("validation", db, 0)
  ELSE Then(retrieveFromIndexedDB(db, "problems", m.ref, fail = 1), 1,
         LAMBDA r1 :
           IF r1.val = Undefined THEN Err("notfound", r1.db, 1)
           ELSE trackProblemUsage(r1.db, m, r1.val, 2))


\* ---- EvaluationAgent and HintAgent
\* getProblemDetails
getProblemDetails(db, problemId, fail) ==
  Caught(retrieveFromIndexedDB(db, "problems", problemId, fail), Undefined)

\* An evaluateCode that looks the problem up before it checks its parameters.
evaluateCode_lookupFirst(db, m, fail) ==
  LET r1 == getProblemDetails(db, m.ref, fail = 1) IN
    IF r1.st = "pending" THEN Stuck(r1.db, 1)
    ELSE IF m.missing THEN Err("validation", r1.db, 1)
    ELSE IF r1.val = Undefined THEN Err("notfound", r1.db, 1)
    ELSE Then(persistToIndexedDB(r1.db, "evaluations",
                                 [id |-> FreshKey(r1.db), userId |-> m.userId,
                                  problemId |-> m.ref,
                                  timestamp |-> Now(r1.db)], fail = 2), 2,
              LAMBDA r2 : Out("evaluate", [problemId |-> m.ref], r2.db, 2))

evaluateCode(db, m, fail) ==
  IF m.missing THEN Err("validation", db, 0)
  ELSE LET r1 == getProblemDetails(db, m.ref, fail = 1) IN
    IF r1.st = "pending" THEN Stuck(r1.db, 1)
    ELSE IF r1.val = Undefined THEN Err("notfound", r1.db, 1)
    ELSE LET evaluationData ==
               [id |-> FreshKey(r1.db), userId |-> m.userId,
                problemId |-> m.ref, timestamp |-> Now(r1.db)]
         IN Then(persistToIndexedDB(r1.db, "evaluations", evaluationData,
                                    fail = 2), 2,
                 LAMBDA r2 : Out("evaluate", [problemId |-> m.ref], r2.db, 2))

\* provideFeedback and suggestImprovements
reuseEvaluation(db, m, fail) ==
  IF m.missing THEN Err("validation", db, 0)
  ELSE IF m.provided THEN Out(m.type, [problemId |-> m.ref], db, 0)
  ELSE Then(retrieveAllFromIndexedDB(db, "evaluations", fail = 1), 1,
         LAMBDA r1 :
           IF \E i \in 1 .. Len(r1.val) :
                r1.val[i].userId = m.userId /\ r1.val[i].problemId = m.ref
           THEN Out(m.type, [problemId |-> m.ref], r1.db, 1)
           ELSE LET r2 == getProblemDetails(r1.db, m.ref, fail = 2) IN
             IF r2.st = "pending" THEN Stuck(r2.db, 2)
             ELSE IF r2.val = Undefined THEN Err("notfound", r2.db, 2)
             ELSE Out(m.type, [problemId |-> m.ref], r2.db, 2))

generateHint(db, m, fail) ==
  IF m.missing THEN Err("validation", db, 0)
  ELSE LET r1 == getProblemDetails(db, m.ref, fail = 1) IN
    IF r1.st = "pending" THEN Stuck(r1.db, 1)
    ELSE IF r1.val = Undefined THEN Err("notfound", r1.db, 1)
    ELSE LET hint == createHint(m.codeAnalysis, m.hintsProvided,
                                m.difficultyLevel,
                                Cardinality(FreshKeys(r1.db)) + 1)
         IN Then(persistToIndexedDB(r1.db, "hints",
                                    [id |-> hint.id, problemId |-> m.ref,
                                     userId |-> m.userId, hint |-> hint],
                                    fail = 2), 2,
                 LAMBDA r2 : Out("provide", hint, r2.db, 2))

storeHint(db, m, fail) ==
  IF m.missing THEN Err("validation", db, 0)
  ELSE Out("provide", [acknowledged |-> TRUE], db, 0)

\* ---- StudyPlanAgent
getEvaluationsForUser(db, userId, fail) ==
  LET r == retrieveAllFromIndexedDB(db, "evaluations", fail) IN
    IF r.st = "resolved"
    THEN Resolved(SelectSeq(r.val, LAMBDA e : e.userId = userId), r.db)
    ELSE Caught(r, << >>)

analyzePerformance(db, m, fail) ==
  IF m.missing THEN Err("validation", db, 0)
  ELSE LET r1 == getEvaluationsForUser(db, m.userId, fail = 1) IN
    IF r1.st = "pending" THEN Stuck(r1.db, 1)
    ELSE Out("analyze", [userId |-> m.userId, metrics |-> Len(r1.val)],
             r1.db, 1)

\* the plan has no id field: persistToIndexedDB gives it a new one
StudyPlan(db, userId, evaluations) ==
  [id |-> NoId, userId |-> userId, createdAt |-> Now(db),
   metrics |-> Len(evaluations)]

generateStudyPlan(db, m, fail) ==
  IF m.missing THEN Err("validation", db, 0)
  ELSE LET r1 == IF m.provided THEN Resolved(<< >>, db)
                 ELSE getEvaluationsForUser(db, m.userId, fail = 1)
           n == IF m.provided THEN 0 ELSE 1
       IN IF r1.st = "pending" THEN Stuck(r1.db, n)
          ELSE LET studyPlan == StudyPlan(r1.db, m.userId, r1.val) IN
            Then(persistToIndexedDB(r1.db, "study_plans", studyPlan,
                                    fail = n + 1), n + 1,
                 LAMBDA r2 : Out("generate",
                                 [userId |-> m.userId, studyPlan |-> studyPlan],
                                 r2.db, n + 1))

updateStudyPlan(db, m, fail) ==
  IF m.missing THEN Err("validation", db, 0)
  ELSE Then(persistToIndexedDB(db, "study_plans",
                               StudyPlan(db, m.userId, << >>), fail = 1), 1,
            LAMBDA r : Out("update", [userId |-> m.userId], r.db, 1))

\* ---- HistoryAgent
\* history.sort((a, b) => b.startTime - a.startTime): a stable sort
RECURSIVE InsertByStartTime(_, _)
InsertByStartTime(sorted, h) ==
  IF sorted = << >> THEN <<h>>
  ELSE IF Head(sorted).startTime >= h.startTime
       THEN <<Head(sorted)>> \o InsertByStartTime(Tail(sorted), h)
       ELSE <<h>> \o sorted

RECURSIVE SortByStartTime(_)
SortByStartTime(seq) ==
  IF seq = << >> THEN << >>
  ELSE InsertByStartTime(SortByStartTime(SubSeq(seq, 1, Len(seq) - 1)),
                         seq[Len(seq)])

\* the filters of fetchHistory
filteredHistory(allHistory, m) ==
  LET byUser == SelectSeq(allHistory, LAMBDA h : h.userId = m.userId)
      bySession ==
        IF m.sessionId # NoId
        THEN SelectSeq(byUser, LAMBDA h : h.sessionId = m.sessionId)
        ELSE byUser
  IN IF m.timeRange # << >>
     THEN SelectSeq(bySession,
                    LAMBDA h : /\ h.startTime >= m.timeRange[1]
                               /\ (h.endTime <= m.timeRange[2]
                                   \/ h.endTime = NoTime))
     ELSE bySession

fetchHistory(db, m, fail) ==
  IF m.missing THEN Err("validation", db, 0)
  ELSE LET r1 == retrieveAllFromIndexedDB(db, "session_history", fail = 1) IN
    IF r1.st = "pending" THEN Stuck(r1.db, 1)
    ELSE LET history == IF r1.st = "rejected" THEN << >>
                        ELSE SortByStartTime(filteredHistory(r1.val, m))
         IN Out("fetch",
                [userId |-> m.userId,
                 history |-> IF Len(history) = 1 /\ m.sessionId # NoId
                             THEN history[1] ELSE history],
                r1.db, 1)

saveHistory(db, m, fail) ==
  IF m.missing THEN Err("validation", db, 0)
  ELSE Then(persistToIndexedDB(db, "session_history", m.item, fail = 1), 1,
            LAMBDA r : Out("save", [userId |-> m.userId, saved |-> TRUE],
                           r.db, 1))

analyzeHistory(db, m, fail) ==
  IF m.missing THEN Err("validation", db, 0)
  ELSE LET fetchMessage ==
             fetchHistory(db, [m EXCEPT !.type = "fetch", !.sessionId = NoId],
                          fail)
       IN IF fetchMessage.type = "none" THEN fetchMessage
          ELSE Out("analyze",
                   [userId |-> m.userId,
                    history |-> fetchMessage.payload.history],
                   fetchMessage.db, 1)

\* ---- the switch of each role's handleMessage
handleMessage(db, m, fail) ==
  CASE m.role = "session" /\ m.type = "init" -> initializeSession(db, m, fail)
    [] m.role = "session" /\ m.type \in {"update", "end", "persist"} ->
         changeSession(db, m, fail)
    [] m.role = "problem" /\ m.type = "request" -> requestProblem(db, m, fail)
    [] m.role = "problem" /\ m.type \in {"suggest", "filter"} ->
         listProblems(db, m, fail)
    [] m.role = "problem" /\ m.type = "provide" -> provideProblem(db, m, fail)
    [] m.role = "evaluation" /\ m.type = "evaluate" -> evaluateCode(db, m, fail)
    [] m.role = "evaluation" /\ m.type \in {"feedback", "improve"} ->
         reuseEvaluation(db, m, fail)
    [] m.role = "hint" /\ m.type = "request" -> generateHint(db, m, fail)
    [] m.role = "hint" /\ m.type = "provide" -> storeHint(db, m, fail)
    [] m.role = "study-plan" /\ m.type = "analyze" ->
         analyzePerformance(db, m, fail)
    [] m.role = "study-plan" /\ m.type = "generate" ->
         generateStudyPlan(db, m, fail)
    [] m.role = "study-plan" /\ m.type = "update" -> updateStudyPlan(db, m, fail)
    [] m.role = "history" /\ m.type = "fetch" -> fetchHistory(db, m, fail)
    [] m.role = "history" /\ m.type = "save" -> saveHistory(db, m, fail)
    [] m.role = "history" /\ m.type = "analyze" -> analyzeHistory(db, m, fail)
    [] OTHER -> Err("unknown", db, 0)


\* ------------------------------------------- the role handlers on their own
MaxEntities == 3           \* entities stored under generated ids, and messages
                           \* appended to stored sessions
FailAt == {0, 1}           \* which helper call of a handler fails (0: none)

MaxSeedings == 2           \* calls of initializeSampleProblems
SeedKeys == {sampleProblems(seed)[k].id :
               seed \in 1 .. MaxSeedings + 1, k \in 1 .. Len(SampleProblems)}

HistoryItems ==
  {[id |-> NoId, userId |-> "u1", sessionId |-> 1, startTime |-> 1, endTime |-> 2],
   [id |-> NoId, userId |-> "u1", sessionId |-> 2, startTime |-> 3, endTime |-> NoTime],
   [id |-> NoId, userId |-> "u2", sessionId |-> 4, startTime |-> 2, endTime |-> 3]}

\* the messages sent to each role: for every type one that lacks a required
\* field, and the valid ones over the values above
Missing(role, type) == [Msg(role, type) EXCEPT !.missing = TRUE]

SessionMessages ==
  {Missing("session", t) : t \in RoleTypes("session")}
  \cup {[Msg("session", "init") EXCEPT !.experienceLevel = lvl] :
          lvl \in {"beginner", "expert"}}
  \cup {[Msg("session", t) EXCEPT !.ref = k] :
          t \in {"update", "end", "persist"}, k \in {NewKey(1), UnknownRef}}

ProblemMessages ==
  {Missing("problem", t) : t \in RoleTypes("problem")}
  \cup {[Msg("problem", "request") EXCEPT !.difficulty = d, !.category = c,
                                          !.pick = p] :
          d \in {NoDifficulty, "easy", "expert"},
          c \in {NoCategory, "arrays"}, p \in {1, 2}}
  \cup {[Msg("problem", t) EXCEPT !.difficulty = d] :
          t \in {"suggest", "filter"}, d \in {NoDifficulty, "easy"}}
  \cup {[Msg("problem", "provide") EXCEPT !.ref = k] :
          k \in {NewKey(101), UnknownRef}}

EvaluationMessages ==
  {Missing("evaluation", t) : t \in RoleTypes("evaluation")}
  \cup {[Msg("evaluation", "evaluate") EXCEPT !.ref = k] :
          k \in {NewKey(101), UnknownRef}}
  \cup {[Msg("evaluation", t) EXCEPT !.ref = k, !.provided = b] :
          t \in {"feedback", "improve"}, k \in {NewKey(101), UnknownRef},
          b \in BOOLEAN}

HintMessages ==
  {Missing("hint", t) : t \in RoleTypes("hint")}
  \cup {[Msg("hint", "request") EXCEPT !.ref = k] :
          k \in {NewKey(101), UnknownRef}}
  \cup {Msg("hint", "provide")}

StudyPlanMessages ==
  {Missing("study-plan", t) : t \in RoleTypes("study-plan")}
  \cup {[Msg("study-plan", "generate") EXCEPT !.userId = u, !.provided = b] :
          u \in Users, b \in BOOLEAN}
  \cup {Msg("study-plan", t) : t \in {"analyze", "update"}}

HistoryMessages ==
  {Missing("history", t) : t \in RoleTypes("history")}
  \cup {[Msg("history", "fetch") EXCEPT !.userId = u, !.sessionId = s,
                                         !.timeRange = tr] :
          u \in Users, s \in {NoId, 1}, tr \in {<< >>, <<2, 3>>}}
  \cup {Msg("history", "analyze")}
  \cup {[Msg("history", "save") EXCEPT !.userId = h.userId, !.item = h] :
          h \in HistoryItems}

\* the messages appended to the stored sessions after their welcome message
RECURSIVE AppendedMessages(_)
AppendedMessages(sessions) ==
  IF DOMAIN sessions = {} THEN 0
  ELSE LET k == CHOOSE x \in DOMAIN sessions : TRUE
       IN (Len(sessions[k].messages) - 1)
            + AppendedMessages(MapDelete(sessions, k))

\* the worker of m.role handles m; nothing else is in progress
Handle(m, fail) ==
  LET r == handleMessage(CurDB, m, fail) IN
    /\ Cardinality(FreshKeys(r.db) \ SeedKeys)
         + AppendedMessages(r.db.rows["sessions"]) <= MaxEntities
    /\ Seedings(r.db) <= MaxSeedings
    /\ m.missing => fail = 0
    /\ SetDB(r.db)
    /\ last' = [op |-> "handle", msg |-> m, fail |-> fail, type |-> r.type,
                payload |-> r.payload, calls |-> r.calls]
    /\ UNCHANGED <<mainVars, running>>

ActorNext ==
  \/ \E m \in SessionMessages, fail \in FailAt : Handle(m, fail)
  \/ \E m \in ProblemMessages, fail \in FailAt : Handle(m, fail)
  \/ \E m \in EvaluationMessages, fail \in FailAt : Handle(m, fail)
  \/ \E m \in HintMessages, fail \in FailAt : Handle(m, fail)
  \/ \E m \in StudyPlanMessages, fail \in FailAt : Handle(m, fail)
  \/ \E m \in HistoryMessages, fail \in FailAt : Handle(m, fail)

ActorSpec == Init /\ [][ActorNext]_vars

\* ------------------------------------- generateRecommendations on its own
MaxMetrics == 2            \* categories with evaluations in one analysis
Scores == 0 .. 100         \* PerformanceMetric.score
\* the scores at which the priority, the skipping of a category or the order
\* of two recommendations changes
BoundaryScores == {0, 19, 20, 39, 40, 59, 60, 79, 80, 84, 85, 100}
WeaknessCounts == 0 .. 4   \* the four weaknesses generatePerformanceMetrics tells
BoundaryCounts == {0, 3}   \* below and at the count that raises the priority

Max(a, b) == IF a >= b THEN a ELSE b

\* A calculatePriority that adds the weaknesses' point without the cap at 5.
calculatePriority_noCap(metric) ==
  LET priority == Max(1, 5 - (metric.score \div 20)) IN
    IF metric.weaknesses >= 3 THEN priority + 1 ELSE priority

\* StudyPlanAgent.calculatePriority; metric.weaknesses is weaknesses.length
calculatePriority(metric) ==
  LET priority == Max(1, 5 - (metric.score \div 20)) IN
    IF metric.weaknesses >= 3 THEN Min(5, priority + 1) ELSE priority

\* recommendations.sort((a, b) => b.priority - a.priority): a stable sort
RECURSIVE InsertByPriority(_, _)
InsertByPriority(sorted, rec) ==
  IF sorted = << >> THEN <<rec>>
  ELSE IF Head(sorted).priority >= rec.priority
       THEN <<Head(sorted)>> \o InsertByPriority(Tail(sorted), rec)
       ELSE <<rec>> \o sorted

RECURSIVE SortByPriority(_)
SortByPriority(seq) ==
  IF seq = << >> THEN << >>
  ELSE InsertByPriority(SortByPriority(SubSeq(seq, 1, Len(seq) - 1)),
                        seq[Len(seq)])

\* the forEach of generateRecommendations from the i-th metric on
RECURSIVE Recommended(_, _)
Recommended(metrics, i) ==
  IF i > Len(metrics) THEN << >>
  ELSE IF metrics[i].score >= 85 THEN Recommended(metrics, i + 1)
  ELSE <<[category |-> metrics[i].category,
          priority |-> calculatePriority(metrics[i])]>>
       \o Recommended(metrics, i + 1)

\* StudyPlanAgent.generateRecommendations
generateRecommendations(metrics) == SortByPriority(Recommended(metrics, 1))

\* no analysis made yet
PlanInit ==
  /\ MainInit
  /\ rows = [c \in Collections |-> EmptyMap]
  /\ running = << >>
  /\ last = [op |-> "plan", metrics |-> << >>, recommendations |-> << >>]

\* the analysis finds one more category with evaluations; the plan is
\* generated again from all the metrics. The first category takes every score
\* and count, the further ones the boundary values.
NextMetric(score, weaknesses) ==
  /\ Len(last.metrics) < MaxMetrics
  /\ Len(last.metrics) > 0 =>
       (score \in BoundaryScores /\ weaknesses \in BoundaryCounts)
  /\ LET metrics == Append(last.metrics,
                           [category |-> Len(last.metrics) + 1,
                            score |-> score, weaknesses |-> weaknesses])
     IN last' = [last EXCEPT !.metrics = metrics,
                             !.recommendations = generateRecommendations(metrics)]
  /\ UNCHANGED <<mainVars, dbExists, dbStores, rows, running>>

PlanNext == \E score \in Scores, weaknesses \in WeaknessCounts :
              NextMetric(score, weaknesses)

PlanSpec == PlanInit /\ [][PlanNext]_vars

\* ------------------------- the handlers of a worker, interleaved at awaits
\* self.onmessage is async: a message is dispatched while the handlers of
\* earlier messages are suspended at the await of a Store helper. A handler is
\* taken here from one await to the next, with the values it holds.
MaxHandlers == 3           \* messages delivered to the workers

\* the helper calls in progress are served in the order they were made (the
\* open requests of one database are queued); `ticket` numbers the calls
Tickets == {running[i].ticket : i \in DOMAIN running}
NextTicket == IF running = << >> THEN 1
              ELSE 1 + (CHOOSE t \in Tickets : \A u \in Tickets : u <= t)

\* a handler suspended at its pc-th await, holding `local`
Suspended(m, pc, local) ==
  [msg |-> m, pc |-> pc, local |-> local, type |-> "run",
   ticket |-> NextTicket]
\* a handler that has posted its response, or never will ("hung")
Ended(m, type, local) ==
  [msg |-> m, pc |-> 0, local |-> local, type |-> type, ticket |-> 0]

\* self.onmessage up to the first await of the handler of the i-th message
WorkerBegin(db, m, i) ==
  IF m.missing THEN Ended(m, "error", Undefined)
  ELSE IF m.role = "session" /\ m.type = "init"
  THEN Suspended(m, 1, SessionData(NewKey(i), m, Now(db)))
  ELSE Suspended(m, 1, Undefined)

\* the helper a suspended handler awaits
WorkerCall(db, h) ==
  CASE h.msg.role = "session" /\ h.msg.type = "init" ->
         persistToIndexedDB(db, "sessions", h.local, FALSE)
    [] h.msg.role = "session" /\ h.pc = 1 ->
         retrieveFromIndexedDB(db, "sessions", h.msg.ref, FALSE)
    [] h.msg.role = "session" /\ h.pc = 2 ->
         persistToIndexedDB(db, "sessions", h.local, FALSE)
    [] h.msg.role = "problem" /\ h.pc \in {1, NumSamples + 2} ->
         getProblemsFromDatabase(db, FALSE)
    [] h.msg.role = "problem" /\ h.pc = NumSamples + 3 ->
         persistToIndexedDB(db, "problem_usage",
                            [id |-> FreshKey(db), problemId |-> h.local.id,
                             userId |-> h.msg.userId], FALSE)
    [] h.msg.role = "problem" ->
         persistToIndexedDB(db, "problems", h.local[h.pc - 1], FALSE)

\* the handler of the i-th message from the settling of its await, with
\* result r, to its next await or its response
WorkerResume(h, r, i) ==
  LET m == h.msg IN
  CASE r.st = "pending" -> Ended(m, "hung", h.local)
    [] r.st = "rejected" -> Ended(m, "error", h.local)
    [] m.role = "session" /\ m.type = "init" -> Ended(m, "init", h.local)
    [] m.role = "session" /\ h.pc = 1 ->
         IF r.val = Undefined THEN Ended(m, "error", Undefined)
         ELSE Suspended(m, 2, ChangedSession(m, r.val, Now(r.db)))
    [] m.role = "session" /\ h.pc = 2 -> Ended(m, m.type, h.local)
    [] m.role = "problem" /\ h.pc = 1 ->
         IF Len(r.val) = 0 THEN Suspended(m, 2, sampleProblems(i))
         ELSE Suspended(m, NumSamples + 3, selectedProblem(r.db, m, r.val))
    [] m.role = "problem" /\ h.pc = NumSamples + 2 ->
         Suspended(m, NumSamples + 3, selectedProblem(r.db, m, r.val))
    [] m.role = "problem" /\ h.pc = NumSamples + 3 ->
         Ended(m, "provide", h.local)
    [] m.role = "problem" -> Suspended(m, h.pc + 1, h.local)

\* the messages delivered: the session requests about the first session, and
\* problem requests
WorkerMessages ==
  {Msg("session", "init"), Missing("session", "persist"),
   Msg("problem", "request")}
  \cup {[Msg("session", t) EXCEPT !.ref = NewKey(1)] :
          t \in {"update", "end", "persist"}}

\* a message reaches its worker and is dispatched; the text of a persisted
\* message is told apart by the number of its request
Deliver(m) ==
  /\ Len(running) < MaxHandlers
  /\ LET i == Len(running) + 1 IN
       running' = Append(running, WorkerBegin(CurDB, [m EXCEPT !.content = i], i))
  /\ UNCHANGED <<mainVars, dbExists, dbStores, rows, last>>

\* the Store settles the oldest helper call in progress, and its handler goes
\* on to its next await or to its response
Resume(i) ==
  /\ i \in DOMAIN running
  /\ running[i].type = "run"
  /\ \A j \in DOMAIN running :
       running[j].type = "run" => running[i].ticket <= running[j].ticket
  /\ LET r == WorkerCall(CurDB, running[i]) IN
       /\ SetDB(r.db)
       /\ running' = [running EXCEPT ![i] = WorkerResume(@, r, i)]
  /\ UNCHANGED <<mainVars, last>>

WorkerNext ==
  \/ \E m \in WorkerMessages : Deliver(m)
  \/ \E i \in 1 .. MaxHandlers : Resume(i)

WorkerSpec == Init /\ [][WorkerNext]_vars

\* ------------------------------------------------------------------ claims
\* the responses of request n that the Dispatcher has not received yet
InOutbox(n) ==
  \E i \in 1 .. Len(outbox[reqs[n].role]) : outbox[reqs[n].role][i].req = n

\* C1: messages for one actor are processed strictly sequentially: no two
\* handlers of the same worker are between their start and their response at
\* the same time.
C1_StrictlySequential ==
  \A a, b \in Requests :
    (a # b /\ reqs[a].role = reqs[b].role /\ reqs[a].gen = reqs[b].gen)
      => ~(hs[a].st = "run" /\ hs[b].st = "run")

\* C2: an error-typed response makes the Dispatcher reject the pending future;
\* a future is resolved only with a response that is not of type 'error'.
C2_ErrorResponseRejects ==
  \A n \in Requests : fut[n].state = "resolved" => fut[n].val # "error"

\* C3: a request without a type field sent through sendMessage yields a
\* rejected future: its future is never resolved.
C3_NoTypeIsRejected ==
  \A n \in Requests : reqs[n].type = NoType => fut[n].state # "resolved"

\* C4: the id of every response, success or error, is the id of the request
\* that triggered it, both when the worker posts it and when the Dispatcher
\* settles the request's future with it.
C4_ResponseIdIsRequestId ==
  /\ \A role \in Roles : \A i \in 1 .. Len(outbox[role]) :
       outbox[role][i].id = reqs[outbox[role][i].req].id
  /\ \A n \in Requests : fut[n].state = "resolved" => fut[n].rid = reqs[n].id

\* C4 witness: one request answered with a success response and one with an
\* error response, both received by the Dispatcher.
C4_Witness ==
  \E a, b \in Requests :
    /\ fut[a].state = "resolved" /\ fut[a].val = "error"
    /\ fut[b].state = "resolved" /\ fut[b].val # "error"
    /\ nresp[a] = 1 /\ nresp[b] = 1


\* C5: every future returned by a public Dispatcher operation eventually
\* settles, resolved or rejected.
C5_EveryFutureSettles ==
  \A n \in 1 .. MaxReq :
    (n \in Requests /\ reqs[n].pub /\ fut[n].state = "pending")
      ~> (n \in Requests /\ fut[n].state # "pending")

\* the timer of request n fires in this step
TimerFires(n) == timer[n] = "armed" /\ timer'[n] = "fired"

Receives(role) ==
  /\ outbox[role] # << >>
  /\ outbox'[role] = Tail(outbox[role])
  /\ workers' = workers

Unmatched(role) == Head(outbox[role]).id \notin DOMAIN activeRequests

\* C7 as stated: a response whose id has no pending completion settles no
\* future, invokes no callback and changes no Dispatcher state.
C7_UnmatchedIsDropped ==
  [][\A role \in Roles :
       (Receives(role) /\ Unmatched(role)) =>
         UNCHANGED <<fut, activeRequests, workers, messageHandlers,
                     handlerCalls>>
    ]_vars

\* C7 as amended: a response whose id has no pending completion settles no
\* future and changes neither the pending map, the workers map nor the handler
\* registry; the handler registered for its type, if any, is invoked once.
C7_UnmatchedSettlesNothing ==
  [][\A role \in Roles :
       (Receives(role) /\ Unmatched(role)) =>
         /\ UNCHANGED <<fut, activeRequests, workers, messageHandlers>>
         /\ handlerCalls' = IF Head(outbox[role]).type \in messageHandlers
                            THEN handlerCalls + 1 ELSE handlerCalls
    ]_vars

\* C7 witness: the only request timed out, its (error) response arrived
\* afterwards from a worker that was not restarted, and the handler registered
\* for 'error' was invoked with it.
C7_Witness ==
  /\ Len(reqs) = 1
  /\ fut[1].state = "rejected" /\ fut[1].val = "timeout"
  /\ nresp[1] = 1 /\ ~InOutbox(1)
  /\ reqs[1].role \in DOMAIN workers /\ workers[reqs[1].role] = reqs[1].gen
  /\ handlerCalls = 1

\* C8: a request in flight to a worker that reports a fault is not resent to
\* the replacement, and its future settles in no other way than the rejection
\* with a timeout error; a well-formed request sent after the respawn is
\* delivered to the fresh worker, whose handler runs on to its response.
C8_FaultThenTimeoutThenNormal ==
  /\ \A role \in DOMAIN workers : \A i \in 1 .. Len(mailbox[role]) :
       reqs[mailbox[role][i]].gen = workers[role]
  /\ \A n \in Requests :
       (reqs[n].pub /\ hs[n].st = "killed" /\ fut[n].state # "pending") =>
         (fut[n].state = "rejected" /\ fut[n].val = "timeout")
  /\ \A n \in Requests :
       (reqs[n].pub /\ reqs[n].valid /\ reqs[n].gen > 1) => hs[n].st # "hung"

\* C9 as stated: the workers map holds one worker for each of the six roles
\* at every moment.
C9_OneWorkerPerRole == DOMAIN workers = Roles

\* C9 as amended: until terminateWorkers is called the workers map holds one
\* worker for each of the six roles, whatever was sent and restarted; after
\* terminateWorkers it holds none.
C9_OneWorkerPerRoleUntilTerminated ==
  IF terminated THEN DOMAIN workers = {} ELSE DOMAIN workers = Roles

\* C9 witness: a worker has been restarted and the Dispatcher is in service.
C9_Witness ==
  /\ ~terminated
  /\ \E role \in DOMAIN workers : workers[role] > 1

\* C10: the actor posts exactly one response for every message delivered to
\* it: a handler that has come to its end or can no longer go on has posted
\* one, and no handler posts two.
C10_ExactlyOneResponse ==
  \A n \in Requests :
    /\ nresp[n] <= 1
    /\ hs[n].st \in {"done", "hung"} => nresp[n] = 1

\* C11: messages delivered to the same actor are processed in delivery order:
\* of two requests A then B delivered to one worker, B has no Store effect
\* and no response before A has been answered.
Acted(n) == nresp[n] > 0 \/ hs[n].pc > 1
C11_DeliveryOrder ==
  \A a, b \in Requests :
    (a < b /\ reqs[a].role = reqs[b].role /\ reqs[a].gen = reqs[b].gen
       /\ reqs[a].gen > 0 /\ Acted(b))
      => nresp[a] > 0

\* C12: Store round trip: a get of (collection, item.id) that follows
\* put(collection, item) returns an entity equal to item, and a get that
\* follows delete(collection, id) returns nothing.
StoreCall(l) == l.op \in {"put", "get", "getAll", "delete"}
C12_RoundTrip ==
  [][(/\ StoreCall(last) /\ last.op \in {"put", "delete"} /\ ~last.fail
      /\ last.id # NoId
      /\ last'.op = "get" /\ ~last'.fail
      /\ last'.coll = last.coll /\ last'.id = last.id)
     => (/\ last'.st = "resolved"
         /\ last'.val = IF last.op = "put" THEN last.item ELSE Undefined)]_vars

\* C13: collections are created on first access: a put, get, getAll or
\* delete succeeds whichever collections the database already has.
C13_CreatedOnFirstAccess ==
  (StoreCall(last) /\ ~last.fail) => last.st = "resolved"

\* C17: a hint has level = min(difficultyLevel + hintsProvided, 5); the level
\* lies in 1..5 and does not decrease as hintsProvided grows.
HintsGiven == IF last.op = "hint" THEN last.given ELSE << >>
C17_HintLevel ==
  /\ \A i \in 1 .. Len(HintsGiven) :
       /\ HintsGiven[i].level = Min(last.difficultyLevel + (i - 1), 5)
       /\ HintsGiven[i].level \in 1 .. 5
  /\ \A i, j \in 1 .. Len(HintsGiven) :
       i <= j => HintsGiven[i].level <= HintsGiven[j].level

\* two hints given, for hintsProvided 0 then 1, and the cap reached
C17_Witness ==
  /\ Len(HintsGiven) >= 2
  /\ HintsGiven[1].level < HintsGiven[2].level
  /\ \E i \in 1 .. Len(HintsGiven) :
       last.difficultyLevel + (i - 1) > 5 /\ HintsGiven[i].level = 5

\* C18: no two hints of a session, asked with hintsProvided = 0, 1, 2, ...
\* for the same code and problem, have the same text and code snippet.
C18_NoRepeatedHint ==
  \A i, j \in 1 .. Len(HintsGiven) :
    i # j => \/ HintsGiven[i].text # HintsGiven[j].text
             \/ HintsGiven[i].codeSnippet # HintsGiven[j].codeSnippet

\* the latest call is the handling of a message of `role` with a type in
\* `types`
Handled(l, role, types) ==
  l.op = "handle" /\ l.msg.role = role /\ l.msg.type \in types

LookupCollection(m) ==
  CASE m.role = "session" /\ m.type \in {"update", "end", "persist"} -> "sessions"
    [] m.role = "evaluation" /\ m.type = "evaluate" -> "problems"
    [] m.role = "hint" /\ m.type = "request" -> "problems"
    [] m.role = "problem" /\ m.type = "provide" -> "problems"
    [] OTHER -> "none"
C15_LookupMissIsError ==
  [][(/\ last'.op = "handle" /\ ~last'.msg.missing /\ last'.fail = 0
      /\ LookupCollection(last'.msg) # "none"
      /\ last'.msg.ref \notin DOMAIN rows[LookupCollection(last'.msg)])
     => (last'.type = "error" /\ rows' = rows)]_vars

\* C16: after a successful generate for a user, study_plans holds exactly one
\* plan of that user, the one just generated.
PlansOf(u) ==
  {rows["study_plans"][k] : k \in {x \in DOMAIN rows["study_plans"] :
                                     rows["study_plans"][x].userId = u}}
C16_OnePlanPerUser ==
  (Handled(last, "study-plan", {"generate"}) /\ last.type = "generate")
    => \E k \in DOMAIN rows["study_plans"] :
         PlansOf(last.msg.userId) =
           {[last.payload.studyPlan EXCEPT !.id = k]}

\* C19: a problem request that names a difficulty is answered with a problem
\* of that difficulty, taken from the catalog when the catalog has a match.
CatalogMatches(m) ==
  filteredProblems(InKeyOrder(rows["problems"]), m)
C19_RequestedDifficulty ==
  (/\ Handled(last, "problem", {"request"}) /\ ~last.msg.missing
   /\ last.fail = 0 /\ last.msg.difficulty # NoDifficulty)
    => (/\ last.type = "provide"
        /\ last.payload.problem.difficulty = last.msg.difficulty
        /\ CatalogMatches(last.msg) # << >>
             => \E i \in 1 .. Len(CatalogMatches(last.msg)) :
                  last.payload.problem = CatalogMatches(last.msg)[i])

\* C20: fetchHistory returns exactly the stored records of the requested
\* user (and session and time range when given), each once, most recent
\* first.
Returned(history) == IF DOMAIN history = {"id", "userId", "sessionId", "startTime", "endTime"}
                     THEN <<history>> ELSE history
StoredHistory == InKeyOrder(rows["session_history"])
C20_FetchHistory ==
  (Handled(last, "history", {"fetch"}) /\ ~last.msg.missing /\ last.fail = 0)
    => /\ last.type = "fetch"
       /\ LET h == Returned(last.payload.history) IN
            /\ \A i \in 1 .. Len(h) :
                 /\ h[i].userId = last.msg.userId
                 /\ \E j \in 1 .. Len(StoredHistory) : StoredHistory[j] = h[i]
            /\ \A i, j \in 1 .. Len(h) :
                 i < j => (h[i].startTime >= h[j].startTime /\ h[i] # h[j])
            /\ Len(h) = Len(filteredHistory(StoredHistory, last.msg))

\* C26: a fault reported for one role replaces the worker of that role only:
\* the workers of the other roles stay the instances they were, and the
\* pending map is as it was before the restart.
Restarts(role) ==
  role \in faultq /\ role \in DOMAIN workers /\ role \notin faultq'
  /\ ~terminated'
C26_RestartsOnlyThatRole ==
  [][\A role \in Roles :
       Restarts(role)
         => /\ workers' = [workers EXCEPT ![role] = @ + 1]
            /\ activeRequests' = activeRequests
            /\ \A r \in Roles \ {role} :
                 /\ mailbox'[r] = mailbox[r]
                 /\ outbox'[r] = outbox[r]
                 /\ \A n \in Requests : reqs[n].role = r => hs'[n] = hs[n]]_vars

\* a worker has been replaced while a request was pending and another role
\* had a handler in progress
C26_Witness ==
  /\ DOMAIN workers = Roles
  /\ \E role \in Roles : workers[role] = 2
  /\ activeRequests # EmptyMap
  /\ \E n \in Requests :
       hs[n].st \in {"queued", "run"} /\ workers[reqs[n].role] = 1

\* C30: a future is settled only by the response to its own request or by its
\* own timer, and a pending request keeps its entry in the pending map until
\* one of the two happens (terminateWorkers aside), also when two requests
\* carry the same caller-supplied id.
OwnResponse(n) ==
  /\ Receives(reqs[n].role)
  /\ Head(outbox[reqs[n].role]).req = n
C30_SettledByOwnResponseOrTimer ==
  [][\A n \in Requests :
       (fut[n].state = "pending" /\ ~terminated')
         => /\ fut'[n].state # "pending" => (OwnResponse(n) \/ TimerFires(n))
            /\ fut'[n].state = "pending"
                 => /\ reqs[n].id \in DOMAIN activeRequests'
                    /\ activeRequests'[reqs[n].id] = n]_vars

\* C27: every recommendation of a generated plan has an integer priority in
\* 1..5, for any category score in 0..100 and any number of weaknesses; the
\* recommendations are in order of non-increasing priority; a category that
\* scores 85 or more gets no recommendation.
PlanMade == IF last.op = "plan" THEN last
            ELSE [op |-> "plan", metrics |-> << >>, recommendations |-> << >>]
C27_PriorityRange ==
  LET recs == PlanMade.recommendations
      metrics == PlanMade.metrics
  IN /\ \A i \in 1 .. Len(recs) : recs[i].priority \in 1 .. 5
     /\ \A i, j \in 1 .. Len(recs) :
          i < j => recs[i].priority >= recs[j].priority
     /\ \A k \in 1 .. Len(metrics) :
          metrics[k].score >= 85
            => \A i \in 1 .. Len(recs) : recs[i].category # metrics[k].category

\* a plan whose second category, with the lowest score and three weaknesses,
\* is recommended first with priority 5, before the first category
C27_Witness ==
  /\ Len(PlanMade.metrics) = 2
  /\ PlanMade.metrics[2].score = 0 /\ PlanMade.metrics[2].weaknesses = 3
  /\ Len(PlanMade.recommendations) = 2
  /\ PlanMade.recommendations[1].category = 2
  /\ PlanMade.recommendations[1].priority = 5
  /\ PlanMade.recommendations[2].priority < 5

\* C21: a successful initSession answers with a sessionId that is not empty
\* and is the id of no existing session; it stores one new session, active,
\* with the welcome message as its only message, and leaves the existing
\* sessions as they were; the welcome message is the one of the experience
\* level given ("foundational" for beginner, and for no other level).
InitAnswered(l) == Handled(l, "session", {"init"}) /\ l.type = "init"
C21_InitCreatesSession ==
  [][InitAnswered(last')
     => LET sessionId == last'.payload.sessionId
            session == rows'["sessions"][sessionId]
        IN /\ sessionId # NoId
           /\ sessionId \notin DOMAIN rows["sessions"]
           /\ DOMAIN rows'["sessions"] = DOMAIN rows["sessions"] \cup {sessionId}
           /\ \A k \in DOMAIN rows["sessions"] :
                rows'["sessions"][k] = rows["sessions"][k]
           /\ session.id = sessionId
           /\ session.isActive
           /\ session.messages = <<last'.payload.message>>
           /\ (last'.msg.experienceLevel = "beginner")
                <=> (last'.payload.message = "foundational coding skills")]_vars

\* a second session was initialized, for a beginner, next to a session that
\* has a persisted message
C21_Witness ==
  /\ InitAnswered(last)
  /\ last.msg.experienceLevel = "beginner"
  /\ \E k \in DOMAIN rows["sessions"] :
       k # last.payload.sessionId /\ Len(rows["sessions"][k].messages) = 2

\* C22: a successful end request leaves the session stored under its id,
\* inactive and with an end time; its user, level, start time and messages
\* are as before, and so is every other session.
EndAnswered(l) == Handled(l, "session", {"end"}) /\ l.type = "end"
ProblemSelected ==
  selectedProblem(CurDB, last.msg, InKeyOrder(rows["problems"]))
C29_ResolvedProblemIsStored ==
  (/\ Handled(last, "problem", {"request"}) /\ ~last.msg.missing
   /\ "problems" \in dbStores)
    => /\ ProblemSelected.id \in DOMAIN rows["problems"]
       /\ getProblemDetails(CurDB, ProblemSelected.id, FALSE).val # Undefined

\* C25: an evaluate request for a known problem, with its parameters and no
\* Store failure, is answered and adds one evaluation under a new id; a
\* request of the evaluation role that is not answered with "evaluate" adds
\* none; no request changes or removes a stored evaluation.
C25_OneRecordPerEvaluation ==
  [][Handled(last', "evaluation", RoleTypes("evaluation"))
     => /\ (/\ last'.msg.type = "evaluate" /\ ~last'.msg.missing
             /\ last'.fail = 0
             /\ last'.msg.ref \in DOMAIN rows["problems"])
              => last'.type = "evaluate"
        /\ last'.type = "evaluate"
              => \E k \in DOMAIN rows'["evaluations"] :
                   /\ k \notin DOMAIN rows["evaluations"]
                   /\ DOMAIN rows'["evaluations"] =
                        DOMAIN rows["evaluations"] \cup {k}
        /\ last'.type # "evaluate"
              => DOMAIN rows'["evaluations"] = DOMAIN rows["evaluations"]
        /\ \A k \in DOMAIN rows["evaluations"] :
             rows'["evaluations"][k] = rows["evaluations"][k]]_vars

\* the requests of `type` for session k that have been answered with success
Answered(type, k) ==
  {i \in DOMAIN running :
     /\ running[i].msg.role = "session" /\ running[i].msg.type = type
     /\ running[i].msg.ref = k /\ running[i].type = type}
\* a request that changes session k is between its read and its response
Changing(k) ==
  \E i \in DOMAIN running :
    /\ running[i].msg.role = "session" /\ running[i].msg.ref = k
    /\ running[i].type = "run"

\* C23: the messages of a stored session are its welcome message followed by
\* the messages of the persist requests answered with success, each once and
\* none lost, however the requests were interleaved.
C23_NoPersistedMessageLost ==
  \A k \in DOMAIN rows["sessions"] :
    LET messages == rows["sessions"][k].messages IN
      /\ \A i \in Answered("persist", k) :
           \E j \in 2 .. Len(messages) : messages[j] = i
      /\ ~Changing(k) =>
           Len(messages) = 1 + Cardinality(Answered("persist", k))

\* C24: the problems collection never holds a sample problem twice, and once
\* a problem request has got past its seeding and none is still reading or
\* seeding, it holds each of the five sample problems exactly once.
Copies(sample) ==
  Cardinality({k \in DOMAIN rows["problems"] :
                 rows["problems"][k].sample = sample})
ProblemRequests == {i \in DOMAIN running : running[i].msg.role = "problem"}
Seeded ==
  /\ "problems" \in dbStores
  /\ ProblemRequests # {}
  /\ \A i \in ProblemRequests :
       running[i].type # "run" \/ running[i].pc = NumSamples + 3
C24_SeededOnce ==
  \A sample \in 1 .. NumSamples :
    /\ Copies(sample) <= 1
    /\ Seeded => Copies(sample) = 1

\* C28: a session whose end request has been answered with success is
\* inactive from then on, whatever update and persist requests for it were
\* delivered before, during or after the end request.
C28_EndedStaysInactive ==
  \A k \in DOMAIN rows["sessions"] :
    Answered("end", k) # {} => ~rows["sessions"][k].isActive
====
